---- MODULE Spec2Model ----
(***************************************************************************)
(* Model of src/robot.py (class Robot): the receive path (_recv_aux), the  *)
(* run loop (_start_aux), the command queue (direction_queue), the heading *)
(* state machine (turn_cardinal) and the motion primitives (move,          *)
(* move_to_coords).                                                        *)
(*                                                                         *)
(* The program has ONE thread of control.  Lines 175 and 191 read          *)
(*     _thread.start_new_thread(self._start_aux(), ())                     *)
(* so _start_aux is CALLED by the current thread, and only its result      *)
(* (None) is handed to start_new_thread, which then raises TypeError.  The *)
(* variable stk is the call stack of that single thread; an empty stack    *)
(* means that control is with the caller of the public methods.            *)
(***************************************************************************)
EXTENDS Integers, Sequences, FiniteSets, TLC

\* ---------------------------------------------------------------- bounds
MaxCoord == 2       \* start cells are (1..MaxCoord) x (1..MaxCoord)
MaxPuts  == 2       \* directives ever put into direction_queue
MaxDepth == 2       \* frames on the call stack (nested _start_aux)
MaxPolls == 3       \* polls that move the position in one move_to_coords

\* ------------------------------------------------------ program constants
Speed          == 64    \* motor power used by every motor command
Quarter        == 90    \* tacho degrees of a quarter turn
Half           == 180   \* tacho degrees of a half turn
StopThreshold  == 50    \* light value that ends the wait in move()
TempThreshold  == 30    \* temperature above which the warning is printed
YThreshold     == 75    \* light value that counts in the Y loop (line 468)

Headings == {"north", "east", "south", "west"}

\* ------------------------------------------------------------ wire values
\* Every value that pickle.loads can deliver is a record [k, x, y]:
\*   k = a control word, a directive word, "xy" for a pair of integers
\*   (x, y), or "garbage" when sock.recv / pickle.loads raises.
Val(k)     == [k |-> k, x |-> 0, y |-> 0]
Coord(X, Y) == [k |-> "xy", x |-> X, y |-> Y]
None       == Val("None")

ControlWords   == {"end", "manual", "auto", "start", "stop"}
\* "nopath" is the value False
DirectiveWords == {"forward", "backward", "right", "left", "goal", "nopath"}
\* targets of move_to_coords: up to three cells east of a start cell
Targets    == {Coord(X, Y) : X \in 1..(MaxCoord + 3), Y \in 1..MaxCoord}
\* what the server queues: the directive words and a coordinate
Directives == {Val(w) : w \in DirectiveWords} \cup {Coord(1, 1)}
Messages   == {Val(w) : w \in ControlWords} \cup Directives \cup {Val("garbage")}

VARIABLES
    MANUAL,             \* self.MANUAL
    RUN,                \* self.RUN
    sock,               \* self.sock: "new", "connected" or "closed"
    direction_queue,    \* self.direction_queue, head first
    current_location_x, \* self.current_location_x
    current_location_y, \* self.current_location_y
    current_direction,  \* self.current_direction
    left_motor,         \* self.left_motor: what run()/brake() commanded last
    right_motor,        \* self.right_motor: the same
    stk,                \* call stack of the thread, innermost frame last
    putLog,             \* history: every value put into direction_queue
    takenLog,           \* history: every value got from direction_queue
    call,               \* history: the latest call of a public method;
                        \*   read: how the latest read made by connect(),
                        \*   recv(1) or recv() for the caller ended
    lastMtc,            \* history: the latest start of move_to_coords
    turnOrient,         \* history: orientation the turn_cardinal motor
                        \*   commands add up to, in eighths of a turn
    faultSeen,          \* history: a motor call of turn_cardinal has raised
    readAfterEnd,       \* history: a receive loop that handled "end" has
                        \*   called sock.recv again
    moveFault           \* history: the directive during which a motor or
                        \*   sensor call of move() raised first, or "none"

vars == <<MANUAL, RUN, sock, direction_queue, current_location_x,
          current_location_y, current_direction, left_motor, right_motor,
          stk, putLog, takenLog, call, lastMtc, turnOrient, faultSeen,
          readAfterEnd, moveFault>>

linkVars   == <<MANUAL, RUN, sock, direction_queue, putLog, readAfterEnd>>
motionVars == <<current_location_x, current_location_y, current_direction,
                left_motor, right_motor, turnOrient, faultSeen, moveFault>>

\* ------------------------------------------------------------ call stack
\* A frame: fn the function, pc where it stands, via who called it, got the
\* message it handled last: "stop", "end", or "other" for anything else.
Frame(fn, pc, via) == [fn |-> fn, pc |-> pc, via |-> via, got |-> "none"]
Top        == stk[Len(stk)]
Front(s)   == SubSeq(s, 1, Len(s) - 1)
AtCaller   == stk = <<>>
Activations(s) == {i \in 1..Len(s) : s[i].fn = "_start_aux"}

Snapshot == [dir |-> current_direction, x |-> current_location_x,
             y |-> current_location_y]
NoCall == [op |-> "none", arg |-> None, out |-> "returned", exc |-> "none",
           pre |-> [dir |-> "north", x |-> 0, y |-> 0], cmds |-> <<>>,
           sent |-> FALSE, hot |-> FALSE, read |-> "none", prevFrom |-> "none"]
\* the record of a public method entered now
NewCall(op, arg) ==
    [op |-> op, arg |-> arg, out |-> "active", exc |-> "none",
     pre |-> Snapshot, cmds |-> <<>>, sent |-> FALSE, hot |-> FALSE,
     read |-> "none",
     prevFrom |-> IF call.op = "turn_cardinal" /\ call.out = "returned"
                  THEN call.pre.dir ELSE "none"]
Returned(c) == [c EXCEPT !.out = "returned"]
Raised(c, e) == [c EXCEPT !.out = "raised", !.exc = e]

\* ---------------------------------------------------------- command queue
\* queue.Queue: put appends at the tail, get removes the head.
\* (QueuePutLifo: a put at the head, as a stack would do.)
QueuePutLifo(q, v) == <<v>> \o q
QueuePut(q, v) == Append(q, v)
QueueGet(q) == [item |-> Head(q), rest |-> Tail(q)]

\* ------------------------------------------------------------ _recv_aux
\* lines 183-185: the handler of a failed read prints and passes; RUN after
\* it.  (ExceptRunStops: a handler that stops the robot.)
ExceptRunStops == FALSE
ExceptRun == RUN

\* One call of _recv_aux on message m; base is the stack the call returns
\* to; ended tells that the calling loop has handled "end" before.  Every
\* exception inside is swallowed by the bare except of line 183.
_recv_aux(m, base, ended) ==
    IF sock # "connected"
    THEN \* sock.recv raises OSError (line 162), caught at line 183
         /\ readAfterEnd' = (readAfterEnd \/ (sock = "closed" /\ ended))
         /\ stk' = base
         /\ RUN' = ExceptRun
         /\ UNCHANGED <<MANUAL, sock, direction_queue, putLog>>
    ELSE /\ UNCHANGED readAfterEnd
         /\ CASE m.k = "garbage" ->     \* pickle.loads raises, caught
                    /\ stk' = base
                    /\ RUN' = ExceptRun
                    /\ UNCHANGED <<MANUAL, sock, direction_queue, putLog>>
              [] m.k = "end" ->         \* lines 163-166, disconnect 331-339
                    /\ RUN' = FALSE
                    /\ sock' = "closed"
                    /\ stk' = base
                    /\ UNCHANGED <<MANUAL, direction_queue, putLog>>
              [] m.k = "manual" ->
                    /\ MANUAL' = TRUE
                    /\ stk' = base
                    /\ UNCHANGED <<RUN, sock, direction_queue, putLog>>
              [] m.k = "auto" ->
                    /\ MANUAL' = FALSE
                    /\ stk' = base
                    /\ UNCHANGED <<RUN, sock, direction_queue, putLog>>
              [] m.k = "start" ->       \* line 175 CALLS _start_aux
                    /\ Len(base) < MaxDepth
                    /\ RUN' = TRUE      \* line 198
                    /\ stk' = Append(base, Frame("_start_aux", "recv", "_recv_aux"))
                    /\ UNCHANGED <<MANUAL, sock, direction_queue, putLog>>
              [] m.k = "stop" ->        \* stop(), lines 209-210
                    /\ RUN' = FALSE
                    /\ stk' = base
                    /\ UNCHANGED <<MANUAL, sock, direction_queue, putLog>>
              [] OTHER ->               \* lines 180-182
                    /\ Len(putLog) < MaxPuts
                    /\ direction_queue' = QueuePut(direction_queue, m)
                    /\ putLog' = Append(putLog, m)
                    /\ stk' = base
                    /\ UNCHANGED <<MANUAL, RUN, sock>>

\* line 162 reading m: "failed" when sock.recv or pickle.loads raises
ReadOutcome(m) == IF sock # "connected" \/ m.k = "garbage" THEN "failed" ELSE "ok"

\* what the frame that called recv(1) notes about the message it handled
Got(m) == IF sock = "connected" /\ m.k \in {"stop", "end"} THEN m.k ELSE "other"

\* -------------------------------------------------------- turn_cardinal
\* The two motor commands of one rotation, left motor first.
Rot(lp, ld, rp, rd) ==
    << [m |-> "left",  op |-> "turn", p |-> lp, d |-> ld],
       [m |-> "right", op |-> "turn", p |-> rp, d |-> rd] >>

\* lines 228-270: the motor commands for (current, target), cur # d
RotationTable(cur, d) ==
    CASE cur = "west"  /\ d = "east"  -> Rot(Speed, Half, -Speed, Half)
      [] cur = "west"  /\ d = "north" -> Rot(Speed, Quarter, -Speed, Quarter)
      [] cur = "west"  /\ d = "south" -> Rot(-Speed, Quarter, Speed, Quarter)
      [] cur = "east"  /\ d = "west"  -> Rot(Speed, Half, -Speed, Half)
      [] cur = "east"  /\ d = "north" -> Rot(Speed, Quarter, -Speed, Quarter)
      [] cur = "east"  /\ d = "south" -> Rot(-Speed, Quarter, Speed, Quarter)
      [] cur = "north" /\ d = "west"  -> Rot(Speed, Quarter, -Speed, Quarter)
      [] cur = "north" /\ d = "east"  -> Rot(-Speed, Quarter, Speed, Quarter)
      [] cur = "north" /\ d = "south" -> Rot(Speed, Quarter, -Speed, Half)
      [] cur = "south" /\ d = "west"  -> Rot(-Speed, Quarter, Speed, Quarter)
      [] cur = "south" /\ d = "east"  -> Rot(Speed, Quarter, -Speed, Quarter)
      [] cur = "south" /\ d = "north" -> Rot(-Speed, Half, Speed, Half)
      [] OTHER -> <<>>

\* line 227: nothing is commanded when the heading is already the target
\* (TurnPlanUnguarded: the same without that test.)
TurnPlanUnguarded(cur, d) ==
    IF cur = d THEN Rot(Speed, Half, -Speed, Half) ELSE RotationTable(cur, d)
TurnPlan(cur, d) == IF cur = d THEN <<>> ELSE RotationTable(cur, d)

\* line 226: the test that admits the four cardinal directions
\* (ValidDirectionAny: the same test admitting every value.)
ValidDirectionAny(d) == TRUE
ValidDirection(d) == d \in Headings

\* line 272: the heading recorded after the rotation
\* (NewHeadingSouthOnly: line 272 indented into the "south" block.)
NewHeadingSouthOnly(cur, d) == IF cur = "south" THEN d ELSE cur
NewHeading(cur, d) == d

\* Orientation, in eighths of a turn clockwise from north.  A motor turning
\* Quarter degrees moves the robot by an eighth: forwards on the left wheel
\* and backwards on the right wheel turn it clockwise (move(), "right").
Sgn(n) == IF n > 0 THEN 1 ELSE IF n < 0 THEN -1 ELSE 0
CmdTurn(c) == (IF c.m = "left" THEN 1 ELSE -1) * Sgn(c.p) * (c.d \div Quarter)
RECURSIVE SumTurn(_)
SumTurn(cs) == IF cs = <<>> THEN 0 ELSE CmdTurn(Head(cs)) + SumTurn(Tail(cs))
HeadingAngle(h) ==
    CASE h = "north" -> 0 [] h = "east" -> 2 [] h = "south" -> 4 [] OTHER -> 6

\* ------------------------------------------------------- move_to_coords
\* _create_auto_commands (line 427) is defined nowhere in src/robot.py: the
\* call raises AttributeError ("undefined"), unless the base class supplies
\* it, and then (docstring, lines 402-403) it queues a new coordinate.
AutoCommands == {Val("undefined"), Coord(1, 1)}
NoAuto == Val("unused")

\* lines 430-441 on the value v taken as the coordinate: a value that is not
\* a pair fails to unpack (lines 432, 437); for a pair of integers line 439
\* concatenates str and int, which raises TypeError before any motion.
AfterUnpack(v) == IF v.k # "xy" THEN "Exception" ELSE "TypeError"

\* move_to_coords(coordinate), a the outcome of _create_auto_commands when
\* it is called.  res: how the call ends ("blocked": Queue.get() waits on
\* the empty queue, and no other thread exists to fill it).
move_to_coords(coordinate, a) ==
    LET auto == coordinate = None /\ direction_queue = <<>> /\ ~MANUAL
        same == [res |-> "none", q |-> direction_queue, puts |-> putLog,
                 taken |-> takenLog]
        q1   == IF auto THEN QueuePut(direction_queue, a) ELSE direction_queue
        p1   == IF auto THEN Append(putLog, a) ELSE putLog
    IN  IF coordinate # None
        THEN [same EXCEPT !.res = AfterUnpack(coordinate)]
        ELSE IF auto /\ a.k = "undefined"
        THEN [same EXCEPT !.res = "AttributeError"]
        ELSE IF q1 = <<>>
        THEN [same EXCEPT !.res = "blocked"]
        ELSE LET g == QueueGet(q1) IN
             [res |-> AfterUnpack(g.item), q |-> g.rest, puts |-> p1,
              taken |-> Append(takenLog, g.item)]

\* the choices of a that move_to_coords reads in the present state
AutoChoice(coordinate, a) ==
    IF coordinate = None /\ direction_queue = <<>> /\ ~MANUAL
    THEN a \in AutoCommands /\ (a.k = "xy" => Len(putLog) < MaxPuts)
    ELSE a = NoAuto

\* ------------------------------------------------------------------ move
Temperatures == {TempThreshold, TempThreshold + 1}
LightValues  == {StopThreshold - 1, StopThreshold}

\* lines 392-398 with temperature reading t: a reading above the threshold
\* reaches the print of lines 395-396, which concatenates str with the
\* reading and raises TypeError; else the position is sent on the socket,
\* and sendall raises OSError unless the socket is connected.
MoveTail(t) ==
    IF t > TempThreshold THEN "TypeError"
    ELSE IF sock # "connected" THEN "OSError"
    ELSE "sent"

\* the call record and the socket history after lines 392-398; hot notes
\* that the reading of line 393 was above the threshold
EndMove(c, t) ==
    /\ call' = [(IF MoveTail(t) = "sent" THEN Returned([c EXCEPT !.sent = TRUE])
                 ELSE Raised(c, MoveTail(t)))
                   EXCEPT !.hot = t > TempThreshold]
    /\ UNCHANGED readAfterEnd

\* ---------------------------------------------------------------- state
Init ==
    /\ MANUAL = FALSE                                   \* line 86
    /\ RUN = FALSE                                      \* line 87
    /\ sock = "new"                                     \* line 101
    /\ direction_queue = <<>>                           \* line 102
    /\ current_location_x \in 1..MaxCoord               \* line 100
    /\ current_location_y \in 1..MaxCoord
    /\ current_direction \in Headings
    /\ left_motor = "stopped"
    /\ right_motor = "stopped"
    /\ stk = <<>>
    /\ putLog = <<>>
    /\ takenLog = <<>>
    /\ call = NoCall
    /\ lastMtc = [src |-> "none", got |-> "none"]
    /\ turnOrient = HeadingAngle(current_direction)
    /\ faultSeen = FALSE
    /\ readAfterEnd = FALSE
    /\ moveFault = "none"

\* -------------------------------------------------- the public methods
\* connect(), lines 119-127: r is what the transport does.
connect(r) ==
    /\ AtCaller
    /\ IF sock = "new" /\ r = "ok"
       THEN /\ sock' = "connected"
            /\ RUN' = TRUE
            /\ stk' = <<Frame("connect", "recv", "caller")>>
            /\ call' = NewCall("connect", None)
            /\ UNCHANGED readAfterEnd
       ELSE /\ sock' = (IF sock = "new" /\ r = "send fails" THEN "connected" ELSE sock)
            /\ call' = Raised(NewCall("connect", None), "Exception")
            /\ UNCHANGED <<RUN, stk, readAfterEnd>>
    /\ UNCHANGED <<MANUAL, direction_queue, putLog, takenLog, lastMtc>>
    /\ UNCHANGED motionVars

\* line 125: the handshake read of connect()
connect_recv(m) ==
    /\ stk # <<>> /\ Top.fn = "connect"
    /\ _recv_aux(m, Front(stk), FALSE)
    /\ call' = [(IF stk' = <<>> THEN Returned(call) ELSE call)
                   EXCEPT !.read = ReadOutcome(m)]
    /\ UNCHANGED <<takenLog, lastMtc>>
    /\ UNCHANGED motionVars

\* recv(1) called by the caller
recv_1(m) ==
    /\ AtCaller
    /\ _recv_aux(m, <<>>, FALSE)
    /\ call' = [(IF stk' = <<>> THEN Returned(NewCall("recv", None))
                 ELSE NewCall("recv", None))
                   EXCEPT !.read = ReadOutcome(m)]
    /\ UNCHANGED <<takenLog, lastMtc>>
    /\ UNCHANGED motionVars

\* recv() called by the caller: enters the loop of lines 148-149
recv ==
    /\ AtCaller
    /\ stk' = <<Frame("recv", "loop", "caller")>>
    /\ call' = NewCall("recv", None)
    /\ UNCHANGED <<takenLog, lastMtc>>
    /\ UNCHANGED linkVars
    /\ UNCHANGED motionVars

\* one round of "while True: self._recv_aux()"; no statement leaves the loop
recv_loop(m) ==
    /\ stk # <<>> /\ Top.fn = "recv"
    /\ _recv_aux(m, [stk EXCEPT ![Len(stk)] =
                         [@ EXCEPT !.got = IF @ = "end" THEN @ ELSE Got(m)]],
               Top.got = "end")
    /\ call' = [call EXCEPT !.read = ReadOutcome(m)]
    /\ UNCHANGED <<takenLog, lastMtc>>
    /\ UNCHANGED motionVars

\* start(), line 191: calls _start_aux; lines 197-199
start ==
    /\ AtCaller
    /\ RUN' = TRUE
    /\ stk' = <<Frame("_start_aux", "recv", "start")>>
    /\ call' = NewCall("start", None)
    /\ UNCHANGED <<MANUAL, sock, direction_queue, putLog, readAfterEnd>>
    /\ UNCHANGED <<takenLog, lastMtc>>
    /\ UNCHANGED motionVars

\* line 200: the recv(1) of the run loop; RUN was set by line 198, so the
\* first test of line 199 lets the loop begin
_start_aux_recv(m) ==
    /\ stk # <<>> /\ Top.fn = "_start_aux" /\ Top.pc = "recv"
    /\ _recv_aux(m, [stk EXCEPT ![Len(stk)] = [@ EXCEPT !.pc = "move", !.got = Got(m)]],
               FALSE)
    /\ UNCHANGED <<takenLog, lastMtc, call>>
    /\ UNCHANGED motionVars

\* line 201: the run loop calls move_to_coords(), whatever RUN is by now.
\* The call blocks or raises; an exception leaves _start_aux and is caught
\* by the except of the _recv_aux that called it (line 183), or reaches the
\* caller of start().  As move_to_coords never returns, the second test of
\* RUN (line 199) and the recv(1) of line 203 are never reached.
_start_aux_move(a) ==
    /\ stk # <<>> /\ Top.fn = "_start_aux" /\ Top.pc = "move"
    /\ AutoChoice(None, a)
    /\ LET r == move_to_coords(None, a) IN
        /\ direction_queue' = r.q
        /\ putLog' = r.puts
        /\ takenLog' = r.taken
        /\ stk' = (IF r.res = "blocked"
                   THEN [stk EXCEPT ![Len(stk)] = [@ EXCEPT !.pc = "blocked"]]
                   ELSE Front(stk))
        /\ call' = (IF r.res = "blocked" \/ Len(stk) > 1 THEN call
                    ELSE IF Top.via = "start" THEN Raised(call, r.res)
                    ELSE Returned(call))
    /\ lastMtc' = [src |-> "run loop", got |-> Top.got]
    /\ UNCHANGED <<MANUAL, RUN, sock, readAfterEnd>>
    /\ UNCHANGED motionVars

\* move_to_coords(c) called by the caller, c a coordinate or None
call_move_to_coords(c, a) ==
    /\ AtCaller
    /\ AutoChoice(c, a)
    /\ LET r == move_to_coords(c, a) IN
        /\ direction_queue' = r.q
        /\ putLog' = r.puts
        /\ takenLog' = r.taken
        /\ stk' = (IF r.res = "blocked"
                   THEN <<Frame("move_to_coords", "blocked", "caller")>> ELSE <<>>)
        /\ call' = (IF r.res = "blocked" THEN NewCall("move_to_coords", c)
                    ELSE Raised(NewCall("move_to_coords", c), r.res))
    /\ lastMtc' = [src |-> "caller", got |-> "none"]
    /\ UNCHANGED <<MANUAL, RUN, sock, readAfterEnd>>
    /\ UNCHANGED motionVars

\* turn_cardinal(d) called by the caller, lines 226-276.  f = 0: no motor
\* call raises; f > 0: the f-th motor call raises, which leaves the method
\* before line 272.  done are the motor calls that completed.
turn_cardinal(d, f) ==
    /\ AtCaller
    /\ LET cur  == current_direction
           plan == IF ValidDirection(d) THEN TurnPlan(cur, d) ELSE <<>>
           done == IF f = 0 THEN plan ELSE SubSeq(plan, 1, f - 1)
           exc  == IF ~ValidDirection(d) THEN "Exception"      \* line 276
                   ELSE IF f = 0 THEN "none" ELSE "MotorError"
           c    == [NewCall("turn_cardinal", Val(d)) EXCEPT !.cmds = done] IN
        /\ f <= Len(plan)
        /\ current_direction' = (IF exc = "none" /\ cur # d
                                 THEN NewHeading(cur, d) ELSE cur)
        /\ turnOrient' = (turnOrient + SumTurn(done)) % 8
        /\ faultSeen' = (faultSeen \/ exc = "MotorError")
        /\ call' = (IF exc = "none" THEN Returned(c) ELSE Raised(c, exc))
    /\ UNCHANGED <<current_location_x, current_location_y, left_motor, right_motor>>
    /\ UNCHANGED <<stk, takenLog, lastMtc, moveFault>>
    /\ UNCHANGED linkVars

\* lines 378-384: the quarter turns of the directives "right" and "left"
MoveTurn(k) ==
    IF k = "right" THEN Rot(Speed, Quarter, -Speed, Quarter)
    ELSE Rot(-Speed, Quarter, Speed, Quarter)

\* run() / back(), lines 292-297 and 315-320: the motors are started only
\* when the left motor is idle
RunCommands(p) == << [m |-> "left",  op |-> "run", p |-> p, d |-> 0],
                     [m |-> "right", op |-> "run", p |-> p, d |-> 0] >>
run(p) == IF left_motor = "stopped" THEN RunCommands(p) ELSE <<>>
\* brake(), lines 328-329
brake == << [m |-> "left",  op |-> "brake", p |-> 0, d |-> 0],
            [m |-> "right", op |-> "brake", p |-> 0, d |-> 0] >>
DriveState(p) == IF p > 0 THEN "fwd" ELSE "back"

\* the first fault of move(): k the directive, bad whether a call raised
FirstFault(k, bad) == IF bad /\ moveFault = "none" THEN k ELSE moveFault

\* disconnect() closes the connection to the brick together with the socket
\* (lines 338-339): from then on the first motor call raises, whatever the
\* hardware would have done (f0).
BrickFault(f0) == IF sock = "closed" THEN 1 ELSE f0

\* move() called by the caller: lines 356-398 up to the wait of lines
\* 368/374.  t is the temperature reading.  f0 = 0: the hardware lets every
\* motor call pass; f0 > 0: the f0-th motor call of the directive raises (in
\* run()/back(): 1 is left_motor.idle() or left_motor.run, 2 is
\* right_motor.run).
move(f0, t) ==
    /\ AtCaller
    /\ IF direction_queue = <<>>
       THEN \* Queue.get() waits for a put that no thread can make
            /\ f0 = 0 /\ t = TempThreshold
            /\ stk' = <<Frame("move", "blocked", "caller")>>
            /\ call' = NewCall("move", None)
            /\ UNCHANGED <<direction_queue, takenLog, left_motor, right_motor,
                           readAfterEnd, moveFault>>
       ELSE LET g == QueueGet(direction_queue)
                k == g.item.k
                f == IF k \in {"forward", "backward", "right", "left"}
                     THEN BrickFault(f0) ELSE f0
                c == NewCall("move", g.item) IN
            /\ sock = "closed" => f0 = 0
            /\ direction_queue' = g.rest
            /\ takenLog' = Append(takenLog, g.item)
            /\ moveFault' = FirstFault(k, f > 0)
            /\ CASE k = "goal" ->               \* lines 362-364
                      /\ f = 0 /\ t = TempThreshold
                      /\ call' = Returned(c)
                      /\ UNCHANGED <<stk, left_motor, right_motor, readAfterEnd>>
                 [] k \in {"forward", "backward"} ->   \* lines 366-374
                      /\ t = TempThreshold
                      /\ LET p    == IF k = "forward" THEN Speed ELSE -Speed
                             done == IF f = 0 THEN run(p)
                                     ELSE SubSeq(run(p), 1, f - 1) IN
                          /\ f <= IF run(p) = <<>> THEN 1 ELSE 2
                          /\ left_motor' = (IF Len(done) >= 1 THEN DriveState(p)
                                            ELSE left_motor)
                          /\ right_motor' = (IF Len(done) >= 2 THEN DriveState(p)
                                             ELSE right_motor)
                          /\ call' = (IF f = 0 THEN [c EXCEPT !.cmds = done]
                                      ELSE Raised([c EXCEPT !.cmds = done], "MotorError"))
                      /\ stk' = (IF f = 0 THEN <<Frame("move", "wait", "caller")>>
                                 ELSE <<>>)
                      /\ UNCHANGED readAfterEnd
                 [] k \in {"right", "left"} ->         \* lines 378-384
                      /\ f <= 2
                      /\ IF f = 0
                         THEN EndMove([c EXCEPT !.cmds = MoveTurn(k)], t)
                         ELSE /\ t = TempThreshold
                              /\ call' = Raised([c EXCEPT !.cmds = SubSeq(MoveTurn(k), 1, f - 1)],
                                                "MotorError")
                              /\ UNCHANGED readAfterEnd
                      /\ UNCHANGED <<stk, left_motor, right_motor>>
                 [] k = "nopath" ->                    \* lines 386-387
                      /\ f = 0
                      /\ EndMove(c, t)
                      /\ UNCHANGED <<stk, left_motor, right_motor>>
                 [] OTHER ->                           \* line 390
                      /\ f = 0 /\ t = TempThreshold
                      /\ call' = Raised(c, "Exception")
                      /\ UNCHANGED <<stk, left_motor, right_motor, readAfterEnd>>
    /\ UNCHANGED <<MANUAL, RUN, sock, putLog, lastMtc>>
    /\ UNCHANGED <<current_location_x, current_location_y, current_direction,
                   turnOrient, faultSeen>>

\* what the hardware does in one poll of the wait: "ok", or the call that
\* raises
PollEvents == {"ok", "sensor", "brake left", "brake right"}

\* one poll of "while self.light_sensor.get_color() < 50" (lines 368, 374)
\* reading v; at the threshold: brake() (lines 370, 376), then lines
\* 392-398.  e = "sensor": get_color raises, which leaves move() with the
\* motors as they are; e = "brake left"/"brake right": that brake raises.
move_poll(v, t, e) ==
    /\ stk # <<>> /\ Top.fn = "move" /\ Top.pc = "wait"
    /\ moveFault' = FirstFault(call.arg.k, e # "ok")
    /\ CASE e = "sensor" ->
              /\ v = StopThreshold /\ t = TempThreshold
              /\ stk' = <<>>
              /\ call' = Raised(call, "SensorError")
              /\ UNCHANGED <<left_motor, right_motor, readAfterEnd>>
         [] e # "sensor" /\ v < StopThreshold ->
              /\ e = "ok" /\ t = TempThreshold
              /\ UNCHANGED <<stk, call, left_motor, right_motor, readAfterEnd>>
         [] e = "ok" /\ v >= StopThreshold ->
              /\ left_motor' = "stopped"
              /\ right_motor' = "stopped"
              /\ stk' = <<>>
              /\ EndMove([call EXCEPT !.cmds = @ \o brake], t)
         [] OTHER ->
              /\ t = TempThreshold
              /\ left_motor' = (IF e = "brake right" THEN "stopped" ELSE left_motor)
              /\ stk' = <<>>
              /\ call' = Raised([call EXCEPT !.cmds =
                                    @ \o SubSeq(brake, 1, IF e = "brake right" THEN 1 ELSE 0)],
                                "MotorError")
              /\ UNCHANGED <<right_motor, readAfterEnd>>
    /\ UNCHANGED <<MANUAL, RUN, sock, direction_queue, putLog, takenLog, lastMtc>>
    /\ UNCHANGED <<current_location_x, current_location_y, current_direction,
                   turnOrient, faultSeen>>

\* ------------------------------------------------------- specification
\* The link, the run loop and the queued directives.  Nothing here reads
\* the position or the heading, so the robot starts in cell (1, 1) (the
\* default of line 48) facing north.
InitLink ==
    /\ Init
    /\ current_location_x = 1
    /\ current_location_y = 1
    /\ current_direction = "north"

Next ==
    \/ \E r \in {"ok", "connect fails", "send fails"} : connect(r)
    \/ \E m \in Messages : connect_recv(m)
    \/ \E m \in Messages : recv_1(m)
    \/ recv
    \/ \E m \in Messages : recv_loop(m)
    \/ start
    \/ \E m \in Messages : _start_aux_recv(m)
    \/ \E a \in AutoCommands \cup {NoAuto} : _start_aux_move(a)
    \/ \E a \in AutoCommands \cup {NoAuto} : call_move_to_coords(None, a)
    \/ \E t \in Temperatures : move(0, t)
    \/ \E v \in LightValues : \E t \in Temperatures : move_poll(v, t, "ok")

Spec == InitLink /\ [][Next]_vars

\* move() with its hardware faults: the caller connects, reads messages one
\* at a time with recv(1) and executes the queued directives with move().
\* The server sends no "start" here.
MoveMessages == Messages \ {Val("start")}

NextMove ==
    \/ \E r \in {"ok", "connect fails", "send fails"} : connect(r)
    \/ \E m \in MoveMessages : connect_recv(m)
    \/ \E m \in MoveMessages : recv_1(m)
    \/ \E f \in 0..2 : \E t \in Temperatures : move(f, t)
    \/ \E v \in LightValues : \E t \in Temperatures : \E e \in PollEvents :
          move_poll(v, t, e)

SpecMove == InitLink /\ [][NextMove]_vars

\* The heading state machine and move_to_coords with a given coordinate,
\* from every start cell and heading.
NextHeading ==
    \/ \E d \in Headings \cup {"up"} : \E f \in 0..2 : turn_cardinal(d, f)
    \/ \E c \in Targets \cup {Val("forward")} : call_move_to_coords(c, NoAuto)

SpecHeading == Init /\ [][NextHeading]_vars

\* --------------------------------------- the traversal of move_to_coords
\* Lines 441-481 run only when line 439 has passed, and for a pair of
\* integers it does not (AfterUnpack): no behaviour of Spec or SpecHeading
\* gets here.  SpecTraverse starts where line 441 starts and follows the
\* two loops as they are written, one loop round per step.
\*
\* The frame of the call holds its locals (X, Y, the two flags of lines
\* 423-424) and, as history, above: the latest poll read a value above
\* the limit of its loop; crossings: the polls so far that did so after a
\* poll that did not; polls: the loop rounds that moved the position.
TraverseFrame(X, Y) ==
    [fn |-> "move_to_coords", pc |-> "x loop", via |-> "caller", got |-> "none",
     X |-> X, Y |-> Y, tempeture_check_flag |-> TRUE, cell_update_flag |-> TRUE,
     above |-> FALSE, crossings |-> 0, polls |-> 0]

PollValues == {StopThreshold, StopThreshold + 1, YThreshold + 1}

\* lines 499-511: the position after _update_current_direction(direction)
_update_current_direction(direction, x, y) ==
    CASE direction = "north" -> [x |-> x, y |-> y + 1]
      [] direction = "east"  -> [x |-> x + 1, y |-> y]
      [] direction = "south" -> [x |-> x, y |-> y - 1]
      [] direction = "west"  -> [x |-> x - 1, y |-> y]
      [] OTHER -> [x |-> x, y |-> y]

\* turn_cardinal(d) followed by run(), as lines 441-446 and 461-466 call
\* them: c0 the call record so far, started the commands of run().  No
\* hardware call fails here.
TurnAndRun(d, c0, started) ==
    LET plan == TurnPlan(current_direction, d) IN
    /\ current_direction' = (IF current_direction # d
                             THEN NewHeading(current_direction, d)
                             ELSE current_direction)
    /\ turnOrient' = (turnOrient + SumTurn(plan)) % 8
    /\ call' = [c0 EXCEPT !.cmds = @ \o plan \o started]
    /\ left_motor' = (IF started # <<>> THEN DriveState(Speed) ELSE left_motor)
    /\ right_motor' = (IF started # <<>> THEN DriveState(Speed) ELSE right_motor)

\* lines 441-446: the turn towards X and the start of the motors
move_to_coords_x_turn(c) ==
    /\ AtCaller
    /\ current_location_x \in 1..(MaxCoord + 3)
    /\ current_location_y \in 1..MaxCoord
    /\ stk' = <<TraverseFrame(c.x, c.y)>>
    /\ TurnAndRun(IF current_location_x < c.x THEN "east" ELSE "west",
                  NewCall("move_to_coords", c), run(Speed))
    /\ lastMtc' = [src |-> "caller", got |-> "none"]
    /\ UNCHANGED <<current_location_x, current_location_y, takenLog,
                   faultSeen, moveFault>>
    /\ UNCHANGED linkVars

\* One round of a loop (lines 447-457, or 467-478) with light reading v
\* and temperature reading t; limit is the value v has to exceed.  The flag
\* cell_update_flag is never assigned after line 424, and the elif of lines
\* 456 and 477 needs it to be False, so that branch does nothing.
LoopRound(v, t, limit) ==
    LET fr    == Top
        moved == v > limit /\ fr.cell_update_flag
        reads == moved /\ fr.tempeture_check_flag
        pos   == IF moved
                 THEN _update_current_direction(current_direction,
                          current_location_x, current_location_y)
                 ELSE [x |-> current_location_x, y |-> current_location_y]
        fr1   == [fr EXCEPT
                    !.tempeture_check_flag = IF reads THEN FALSE ELSE @,
                    !.above = v > limit,
                    !.crossings = IF v > limit /\ ~fr.above THEN @ + 1 ELSE @,
                    !.polls = IF moved THEN @ + 1 ELSE @] IN
    /\ moved => fr.polls < MaxPolls
    /\ reads \/ t = TempThreshold
    /\ current_location_x' = pos.x
    /\ current_location_y' = pos.y
    /\ IF reads /\ t > TempThreshold
       THEN \* lines 454, 475: str + reading raises TypeError
            /\ stk' = <<>>
            /\ call' = [Raised(call, "TypeError") EXCEPT !.hot = TRUE]
       ELSE /\ stk' = <<fr1>>
            /\ UNCHANGED call
    /\ UNCHANGED <<current_direction, left_motor, right_motor, turnOrient,
                   takenLog, lastMtc, faultSeen, moveFault>>
    /\ UNCHANGED linkVars

\* lines 447-457
move_to_coords_x_loop(v, t) ==
    /\ stk # <<>> /\ Top.fn = "move_to_coords" /\ Top.pc = "x loop"
    /\ current_location_x # Top.X
    /\ LoopRound(v, t, StopThreshold)

\* lines 459-466: the X loop has ended; brake, turn towards Y, run
move_to_coords_y_turn ==
    /\ stk # <<>> /\ Top.fn = "move_to_coords" /\ Top.pc = "x loop"
    /\ current_location_x = Top.X
    /\ stk' = <<[Top EXCEPT !.pc = "y loop"]>>
    /\ TurnAndRun(IF current_location_y < Top.Y THEN "south" ELSE "north",
                  [call EXCEPT !.cmds = @ \o brake], RunCommands(Speed))
    /\ UNCHANGED <<current_location_x, current_location_y, takenLog, lastMtc,
                   faultSeen, moveFault>>
    /\ UNCHANGED linkVars

\* lines 467-478
move_to_coords_y_loop(v, t) ==
    /\ stk # <<>> /\ Top.fn = "move_to_coords" /\ Top.pc = "y loop"
    /\ current_location_y # Top.Y
    /\ LoopRound(v, t, YThreshold)

\* lines 480-481: the Y loop has ended; brake, and the call returns
move_to_coords_end ==
    /\ stk # <<>> /\ Top.fn = "move_to_coords" /\ Top.pc = "y loop"
    /\ current_location_y = Top.Y
    /\ stk' = <<>>
    /\ left_motor' = "stopped"
    /\ right_motor' = "stopped"
    /\ call' = Returned([call EXCEPT !.cmds = @ \o brake])
    /\ UNCHANGED <<current_location_x, current_location_y, current_direction,
                   turnOrient, takenLog, lastMtc, faultSeen, moveFault>>
    /\ UNCHANGED linkVars

NextTraverse ==
    \/ \E c \in Targets : move_to_coords_x_turn(c)
    \/ \E v \in PollValues : \E t \in Temperatures : move_to_coords_x_loop(v, t)
    \/ move_to_coords_y_turn
    \/ \E v \in PollValues : \E t \in Temperatures : move_to_coords_y_loop(v, t)
    \/ move_to_coords_end

SpecTraverse == Init /\ [][NextTraverse]_vars

\* =============================================================== claims

\* C1 (as claimed): a call move_to_coords((X, Y)) with an integer target
\* ends by returning, and then the position is the target (X, Y).
C1_ReachesTarget ==
    (call.op = "move_to_coords" /\ call.arg.k = "xy" /\ call.out # "active")
        => /\ call.out = "returned"
           /\ current_location_x = call.arg.x
           /\ current_location_y = call.arg.y

\* C2 (as claimed): from heading north, move_to_coords((x0+3, y0)) turns to
\* east first (the north-to-east rotation is its first motor command pair)
\* and ends with the position (x0+3, y0).
C2_ThreeCellsEast ==
    (/\ call.op = "move_to_coords" /\ call.out # "active"
     /\ call.pre.dir = "north"
     /\ call.arg = Coord(call.pre.x + 3, call.pre.y))
        => /\ call.out = "returned"
           /\ Len(call.cmds) >= 2
           /\ SubSeq(call.cmds, 1, 2) = RotationTable("north", "east")
           /\ current_location_x = call.pre.x + 3
           /\ current_location_y = call.pre.y

\* C3: the directives taken from direction_queue, followed by those still
\* queued, are exactly the directives put, in the order they were put: the
\* taken sequence is a prefix of the put sequence, nothing is taken twice
\* and nothing is lost.
C3_FifoPrefix == takenLog \o direction_queue = putLog

\* C3 witness: _recv_aux queued "forward" and then "right", both were taken
\* in that order, the second by the move_to_coords of the run loop.
C3_Witness ==
    /\ putLog = <<Val("forward"), Val("right")>>
    /\ takenLog = putLog
    /\ lastMtc.src = "run loop"
    /\ call.op = "recv"

\* C4 (as claimed): a receive loop that has decoded "end" has ended with the
\* socket closed, and it attempts no further read of the socket.
C4_NoReadAfterEnd == ~readAfterEnd

\* C5 (as claimed): the run loop starts no move_to_coords after its recv(1)
\* handled "stop".
C5_NoMoveAfterStop == ~(lastMtc.src = "run loop" /\ lastMtc.got = "stop")

\* C6 (as claimed): the receive loop of recv() stays the running function
\* of its thread, so that it can read the next message, whatever the run
\* loop does: no run loop activation runs on top of it.
C6_ReceiveLoopRuns ==
    (\E i \in 1..Len(stk) : stk[i].fn = "recv") => Top.fn = "recv"

\* C7 (as claimed): at most one activation of the run loop exists.
C7_OneActivation == Cardinality(Activations(stk)) <= 1

\* C8: when turn_cardinal(b), called with heading a, has returned and the
\* next call turn_cardinal(a) has returned too, the heading is a again.
C8_RoundTrip ==
    (/\ call.op = "turn_cardinal" /\ call.out = "returned"
     /\ call.prevFrom # "none"
     /\ call.arg.k = call.prevFrom)
        => current_direction = call.prevFrom

\* C8 witness: a round trip through a different heading, with rotations.
C8_Witness ==
    /\ call.op = "turn_cardinal" /\ call.out = "returned"
    /\ call.prevFrom = call.arg.k
    /\ call.pre.dir # call.prevFrom
    /\ call.cmds # <<>>
    /\ current_direction = call.prevFrom

\* C9: turn_cardinal(h) called with heading h returns with no motor command
\* issued and with heading and position as they were.
C9_SameHeadingNoOp ==
    (call.op = "turn_cardinal" /\ call.arg.k = call.pre.dir)
        => /\ call.out = "returned"
           /\ call.cmds = <<>>
           /\ current_direction = call.pre.dir
           /\ current_location_x = call.pre.x
           /\ current_location_y = call.pre.y

\* C9 witness: a turn to the heading already held, after a real turn.
C9_Witness ==
    /\ call.op = "turn_cardinal" /\ call.out = "returned"
    /\ call.arg.k = call.pre.dir
    /\ call.prevFrom \notin {"none", call.pre.dir}

\* The reference rotations of C10: a quarter turn to the clockwise
\* neighbour is the rotation of move()'s "right", to the other neighbour
\* that of "left"; opposite headings take a half turn in either sense.
ClockwiseOf(h) ==
    CASE h = "north" -> "east" [] h = "east" -> "south"
      [] h = "south" -> "west" [] OTHER -> "north"
ReferenceRotations(cur, d) ==
    IF d = ClockwiseOf(cur) THEN {MoveTurn("right")}
    ELSE IF cur = ClockwiseOf(d) THEN {MoveTurn("left")}
    ELSE {Rot(Speed, Half, -Speed, Half), Rot(-Speed, Half, Speed, Half)}

C11_InvalidHeadingRejected ==
    (call.op = "turn_cardinal" /\ call.arg.k \notin Headings)
        => /\ call.out = "raised"
           /\ call.exc = "Exception"
           /\ call.cmds = <<>>
           /\ current_direction = call.pre.dir
           /\ current_location_x = call.pre.x
           /\ current_location_y = call.pre.y

\* C11 witness: an invalid value given after a turn that changed the heading.
C11_Witness ==
    /\ call.op = "turn_cardinal" /\ call.arg.k \notin Headings
    /\ call.out = "raised"
    /\ call.prevFrom \notin {"none", call.pre.dir}

\* C12 (as claimed): when a motor call fails during the rotation of
\* turn_cardinal(target), target # heading, the failure reaches the caller
\* and the recorded heading is target all the same.
C12_HeadingUpdatedOnFault ==
    (call.op = "turn_cardinal" /\ call.exc = "MotorError")
        => /\ call.out = "raised"
           /\ current_direction = call.arg.k

\* The cell one step ahead of (x, y) for heading h, with the axes of
\* _update_current_direction; n = 1 for a step forward, -1 for a step back.
CellAfter(h, x, y, n) ==
    CASE h = "north" -> <<x, y + n>> [] h = "east" -> <<x + n, y>>
      [] h = "south" -> <<x, y - n>> [] OTHER -> <<x - n, y>>

\* C13 (as claimed): a move() that executed "forward" or "backward" and
\* returned has started the drivetrain, halted it after the wait, and left
\* the position one cell ahead of (behind) the position before the call,
\* which is the position its telemetry message carried.
C13_MoveStepsOneCell ==
    (call.op = "move" /\ call.arg.k \in {"forward", "backward"} /\ call.out = "returned")
        => /\ call.cmds = run(IF call.arg.k = "forward" THEN Speed ELSE -Speed) \o brake
           /\ left_motor = "stopped" /\ right_motor = "stopped"
           /\ call.sent
           /\ <<current_location_x, current_location_y>> =
                 CellAfter(call.pre.dir, call.pre.x, call.pre.y,
                           IF call.arg.k = "forward" THEN 1 ELSE -1)

\* C14 (as claimed): once a motor or sensor call has failed while move()
\* executed "forward", the position is as it was, and no later call of
\* move() executes a directive: apart from calls that fail with a fault
\* themselves, none issues a motor command or sends telemetry.
C14_FaultLatches ==
    moveFault = "forward"
        => /\ current_location_x = call.pre.x
           /\ current_location_y = call.pre.y
           /\ (call.op = "move" /\ call.exc \notin {"MotorError", "SensorError"})
                 => (call.cmds = <<>> /\ ~call.sent)

\* C15 (as claimed): a move() whose temperature reading was above the
\* threshold ends as the same call ends with a reading at the threshold:
\* on a connected socket it returns with the telemetry sent, on a socket
\* that is not connected sendall raises; the reading itself raises nothing.
C15_HotReadingHarmless ==
    (call.op = "move" /\ call.hot)
        => IF sock = "connected"
           THEN call.out = "returned" /\ call.sent
           ELSE call.out = "raised" /\ call.exc = "OSError"

\* C16 (as claimed): a connect() whose handshake read failed (transport
\* error or undecodable acknowledgement) has raised, and no connect() makes
\* a second read of the socket: it never stands in a run loop that has
\* passed its own recv(1).
C16_ConnectHandshake ==
    /\ (call.op = "connect" /\ call.read = "failed") => call.out = "raised"
    /\ ~(/\ call.op = "connect" /\ call.out = "active"
         /\ stk # <<>> /\ Top.fn = "_start_aux" /\ Top.pc # "recv")

\* C17 (as claimed): whenever the socket has been closed by the handling of
\* "end", neither motor is still commanded to run.
C17_HaltedBeforeClose ==
    sock = "closed" => (left_motor = "stopped" /\ right_motor = "stopped")

\* C18 (as claimed): every move() that took a directive of one of the six
\* kinds and returned has sent the telemetry message with the position.
C18_TelemetryAfterDirective ==
    (call.op = "move" /\ call.arg.k \in DirectiveWords /\ call.out = "returned")
        => call.sent

\* A step in which connect(), recv(1) or recv() reads the socket for the
\* caller: the thread stands in connect() or in the loop of recv(), or the
\* caller enters recv(1).
ReadStep ==
    \/ stk # <<>> /\ Top.fn \in {"connect", "recv"}
    \/ /\ stk = <<>> /\ call'.op = "recv"
       /\ (stk' = <<>> \/ stk'[1].fn = "_start_aux")

\* C19: a read or decode that fails in _recv_aux leaves RUN, MANUAL, the
\* command queue and the socket as they were, raises nothing to the caller,
\* and leaves a receive loop standing in its loop, ready for the next read.
C19_FailedReadIgnored ==
    [][(ReadStep /\ call'.read = "failed")
          => /\ UNCHANGED <<RUN, MANUAL, direction_queue, sock>>
             /\ call'.out # "raised"
             /\ (stk # <<>> /\ Top.fn = "recv")
                   => (stk' # <<>> /\ stk'[Len(stk')].fn = "recv")]_vars

\* C19 witness: the loop of recv() after a failed read on the open socket,
\* with manual mode set and a directive still queued.
C19_Witness ==
    /\ stk # <<>> /\ Top.fn = "recv" /\ Top.got # "end"
    /\ call.read = "failed"
    /\ sock = "connected" /\ MANUAL /\ RUN
    /\ direction_queue # <<>>

\* The cells between the position before the call and the position now.
CellsMoved ==
    LET Abs(n) == IF n < 0 THEN -n ELSE n IN
    Abs(current_location_x - call.pre.x) + Abs(current_location_y - call.pre.y)

ReceivePath ==
    \E m \in Messages :
        connect_recv(m) \/ recv_1(m) \/ recv_loop(m) \/ _start_aux_recv(m)

\* the run loop waits in direction_queue.get() (line 430) on an empty queue
RunLoopWaits ==
    /\ stk # <<>> /\ Top.fn = "_start_aux" /\ Top.pc = "blocked"
    /\ direction_queue = <<>> /\ MANUAL

\* C21 (as claimed): whenever the run loop waits in direction_queue.get() on
\* an empty queue, the receive path can take a step: some read of the
\* socket is possible, so that a directive sent later can be queued.
C21_ReceiveWhileWaiting == RunLoopWaits => ENABLED ReceivePath

====
